---- MODULE Spec2Model ----
(***************************************************************************)
(* Model of the synergy analysis engine of synergy_app:                    *)
(*   models/data_models.py  (ParameterData, ExperimentData, SynergyResult, *)
(*                           AnalysisResults)                              *)
(*   models/analyzer.py     (SynergyAnalyzer)                              *)
(*   config/settings.py     (ANALYSIS_CONFIG, SYNERGY_THRESHOLDS)          *)
(*   views/data_input.py, views/analysis.py (the callers that mutate the   *)
(*                           analyzer's condition map and stored result)   *)
(*   utils/file_handler.py  (FileHandler.load_results)                     *)
(*   utils/validators.py    (DataValidator.validate_data_completeness)     *)
(*                                                                         *)
(* Dicts.  ExperimentData.parameters is modelled by the sequence of its    *)
(* values in insertion order; the key of an entry is its parameter_name    *)
(* (the legacy branch of from_dict files its one parameter under the key   *)
(* 'primary').                                                             *)
(*                                                                         *)
(* Numbers.  Python floats are modelled by exact rationals [n, d] in       *)
(* lowest terms, with separate values for None, NaN and +infinity.  The    *)
(* replicate values the model draws are small integers, for which every    *)
(* comparison the code makes against 0 and against the thresholds has the  *)
(* same outcome in exact and in IEEE arithmetic; rounding of the last bit  *)
(* of a quotient is not modelled.  A square root is kept symbolic.         *)
(*                                                                         *)
(* Strings.  Condition keys and labels are strings; startswith and the     *)
(* f-string concatenation are computed on them.                            *)
(***************************************************************************)
EXTENDS Integers, Sequences, FiniteSets, TLC

VARIABLES
    data,        \* SynergyAnalyzer.data : condition key -> ExperimentData
    results,     \* SynergyAnalyzer.results : None or AnalysisResults
    last,        \* the most recent call on the analyzer and how it ended
    kwargs,      \* keyword arguments built for SynergyResult(...) for one combination
    ci_in,       \* argument ci of _classify_synergy
    p_in,        \* argument p_value of _classify_synergy
    label,       \* value returned by _classify_synergy
    info,        \* SynergyAnalyzer.additive_a_name, additive_b_name, unit, effect_parameter
    out,         \* value returned (or exception raised) by a function applied on its own
    shared       \* TRUE when results.raw_data is the very dict object analyzer.data

vars == <<data, results, last, kwargs, ci_in, p_in, label, info, out, shared>>

(***************************************************************************)
(* Bounds of the model.                                                    *)
(***************************************************************************)
MaxComb == 2      \* combination_1 .. combination_MaxComb
MaxVal == 1       \* replicate values 0 .. MaxVal (metric computation)
MaxReps == 2      \* replicate lists of length 1 .. MaxReps (metric computation)
MaxCINum == 310   \* combination index inputs -MaxCINum/100 .. MaxCINum/100
MaxPNum == 6      \* p-value inputs 0/100 .. MaxPNum/100
MaxClock == 1     \* clock ticks 0 .. MaxClock
MaxN == 3         \* replicate counts 1 .. MaxN (statistical tests)

(***************************************************************************)
(* Python values                                                           *)
(***************************************************************************)
None == [kind |-> "None"]
NaN == [kind |-> "nan"]
Inf == [kind |-> "inf"]

RECURSIVE GCD(_, _)
GCD(a, b) == IF b = 0 THEN a ELSE GCD(b, a % b)

Abs(i) == IF i < 0 THEN -i ELSE i

\* the rational num/den, den # 0, in lowest terms with a positive denominator
R(num, den) ==
    LET g == GCD(Abs(num), Abs(den))
        s == IF den < 0 THEN -1 ELSE 1
    IN [kind |-> "num", n |-> s * (num \div g), d |-> s * (den \div g)]

Zero == R(0, 1)
One == R(1, 1)
Hundred == R(100, 1)

IsNum(x) == x.kind = "num"

RAdd(x, y) == R(x.n * y.d + y.n * x.d, x.d * y.d)
RSub(x, y) == R(x.n * y.d - y.n * x.d, x.d * y.d)
RMul(x, y) == R(x.n * y.n, x.d * y.d)
\* x / y for y # 0
RDiv(x, y) == R(x.n * y.d, x.d * y.n)
RLt(x, y) == x.n * y.d < y.n * x.d
RLe(x, y) == x.n * y.d <= y.n * x.d

\* float comparison ci < t and ci <= t where ci may be +inf or nan
\* (inf < t and inf <= t are False for finite t; every comparison with nan is False)
FloatLt(x, t) == IsNum(x) /\ RLt(x, t)
FloatLe(x, t) == IsNum(x) /\ RLe(x, t)
FloatGe(x, t) == IF IsNum(x) THEN RLe(t, x) ELSE x = Inf

\* Python truthiness of an Optional[float]: None and 0.0 are falsy, nan is truthy
Truthy(x) == x # None /\ x # Zero

\* str.startswith
startswith(s, prefix) ==
    /\ Len(s) >= Len(prefix)
    /\ SubSeq(s, 1, Len(prefix)) = prefix

\* symbolic square root: sqrt(0) is 0, any other value is kept under the root
Sqrt(x) == IF x = Zero THEN Zero ELSE [kind |-> "sqrt", of |-> x]
\* s ** 2 for a value produced by Sqrt
Square(s) == IF s.kind = "sqrt" THEN s.of ELSE RMul(s, s)

(***************************************************************************)
(* config/settings.py                                                      *)
(***************************************************************************)
significance_threshold == R(5, 100)
strong_synergy == R(5, 10)
moderate_synergy == R(9, 10)
additive_upper == R(11, 10)
weak_antagonism == R(2, 1)

(***************************************************************************)
(* models/data_models.py                                                   *)
(***************************************************************************)
RECURSIVE SumSeq(_)
SumSeq(s) == IF s = <<>> THEN 0 ELSE s[1] + SumSeq(Tail(s))

RECURSIVE SumSquares(_)
SumSquares(s) == IF s = <<>> THEN 0 ELSE s[1] * s[1] + SumSquares(Tail(s))

\* np.mean(values) of a non-empty list
np_mean(values) == R(SumSeq(values), Len(values))

\* np.std(values, ddof=1) ** 2 for len(values) > 1:
\* sum((x - mean)^2) / (n - 1) = (n * sum(x^2) - sum(x)^2) / (n * (n - 1))
np_var_ddof1(values) ==
    LET cnt == Len(values)
    IN R(cnt * SumSquares(values) - SumSeq(values) * SumSeq(values), cnt * (cnt - 1))

\* ParameterData(parameter_name, unit, values) followed by __post_init__
ParameterData(parameter_name, unit, values) ==
    [parameter_name |-> parameter_name,
     unit |-> unit,
     values |-> values,
     mean |-> np_mean(values),
     std |-> IF Len(values) > 1 THEN Sqrt(np_var_ddof1(values)) ELSE Zero,
     n |-> Len(values),
     ci_lower |-> None,
     ci_upper |-> None]

\* The fields the generated ExperimentData.__init__ accepts (timestamp has a
\* default and is not modelled).
ExperimentDataFields == {"amount_a", "amount_b", "parameters", "condition_name"}

\* ExperimentData(**kw): the dataclass constructor raises TypeError on a
\* keyword that is not one of its fields.
ExperimentData(kw) ==
    IF DOMAIN kw \subseteq ExperimentDataFields
    THEN [amount_a |-> kw.amount_a,
          amount_b |-> kw.amount_b,
          parameters |-> IF "parameters" \in DOMAIN kw THEN kw.parameters ELSE <<>>,
          condition_name |-> IF "condition_name" \in DOMAIN kw THEN kw.condition_name ELSE ""]
    ELSE [kind |-> "TypeError"]

\* ExperimentData.add_parameter: self.parameters[param_name] = ParameterData(...)
\* (a dict keeps the position of a key that is already present)
add_parameter(x, param_name, unit, values) ==
    LET p == ParameterData(param_name, unit, values)
        idx == {i \in 1..Len(x.parameters) : x.parameters[i].parameter_name = param_name}
    IN [x EXCEPT !.parameters =
            IF idx = {} THEN Append(x.parameters, p)
            ELSE [i \in 1..Len(x.parameters) |-> IF i \in idx THEN p ELSE x.parameters[i]]]

\* ExperimentData.primary_parameter and the backward-compatibility properties
has_primary(x) == x.parameters # <<>>
primary_parameter(x) == x.parameters[1]
ed_values(x) == IF has_primary(x) THEN primary_parameter(x).values ELSE <<>>
ed_mean(x) == IF has_primary(x) THEN primary_parameter(x).mean ELSE Zero
ed_std(x) == IF has_primary(x) THEN primary_parameter(x).std ELSE Zero
ed_n(x) == IF has_primary(x) THEN primary_parameter(x).n ELSE 0
ed_ci_lower(x) == IF has_primary(x) THEN primary_parameter(x).ci_lower ELSE None
ed_ci_upper(x) == IF has_primary(x) THEN primary_parameter(x).ci_upper ELSE None

\* The fields the generated SynergyResult.__init__ accepts.
SynergyResultFields == {"combination_id", "amount_a", "amount_b", "parameter_results"}

\* SynergyResult(**kw): TypeError on a keyword that is not a field
SynergyResult(kw) ==
    IF DOMAIN kw \subseteq SynergyResultFields
    THEN [combination_id |-> kw.combination_id,
          amount_a |-> kw.amount_a,
          amount_b |-> kw.amount_b,
          parameter_results |-> IF "parameter_results" \in DOMAIN kw
                                THEN kw.parameter_results ELSE <<>>]
    ELSE [kind |-> "TypeError"]

IsTypeError(x) == "kind" \in DOMAIN x /\ x.kind = "TypeError"

\* SynergyResult.primary_result and the properties that read it; each falls
\* back to its default when parameter_results is empty.
sr_has_primary(m) == m.parameter_results # <<>>
sr_primary_result(m) == m.parameter_results[1]
sr_observed_effect(m) == IF sr_has_primary(m) THEN sr_primary_result(m).observed_effect ELSE Zero
sr_expected_additive(m) == IF sr_has_primary(m) THEN sr_primary_result(m).expected_additive ELSE Zero
sr_expected_bliss(m) == IF sr_has_primary(m) THEN sr_primary_result(m).expected_bliss ELSE Zero
sr_combination_index(m) == IF sr_has_primary(m) THEN sr_primary_result(m).combination_index ELSE Inf
sr_enhancement(m) == IF sr_has_primary(m) THEN sr_primary_result(m).enhancement ELSE Zero
sr_enhancement_percent(m) == IF sr_has_primary(m) THEN sr_primary_result(m).enhancement_percent ELSE Zero
sr_bliss_deviation(m) == IF sr_has_primary(m) THEN sr_primary_result(m).bliss_deviation ELSE Zero

\* SynergyResult.synergy_type, p_value, cohens_d, confidence_interval
sr_synergy_type(m) == IF sr_has_primary(m) THEN sr_primary_result(m).synergy_type ELSE "Unknown"
sr_p_value(m) == IF sr_has_primary(m) THEN sr_primary_result(m).p_value ELSE None
sr_cohens_d(m) == IF sr_has_primary(m) THEN sr_primary_result(m).cohens_d ELSE None
sr_confidence_interval(m) ==
    IF sr_has_primary(m) THEN sr_primary_result(m).confidence_interval ELSE <<None, None>>

\* AnalysisResults(metadata=..., raw_data=..., synergy_results=...,
\* statistical_results=..., model_results=...); timestamp is the value of
\* datetime.now() at construction, a tick of a clock that never runs backwards
\* float comparison x > t where x may be +inf or nan
FloatGt(x, t) == IF IsNum(x) THEN RLt(t, x) ELSE x = Inf

\* SynergyResult.is_synergistic, is_antagonistic, is_significant: the
\* definitions at the end of the class body, which replace the earlier ones
sr_is_synergistic(m) == FloatLt(sr_combination_index(m), One)
sr_is_antagonistic(m) == FloatGt(sr_combination_index(m), One)
sr_is_significant(m) == sr_p_value(m) # None /\ FloatLt(sr_p_value(m), R(5, 100))

AnalysisResults(metadata, raw_data, synergy_results, statistical, models, timestamp) ==
    [kind |-> "AnalysisResults",
     metadata |-> metadata,
     raw_data |-> raw_data,
     synergy_results |-> synergy_results,
     statistical_results |-> statistical,
     model_results |-> models,
     timestamp |-> timestamp]

\* an exception raised instead of a value
\* AnalysisResults.get_summary_stats
get_summary_stats(r) ==
    LET counted(test(_)) == Cardinality({k \in DOMAIN r.synergy_results : test(r.synergy_results[k])})
        synergistic == counted(sr_is_synergistic)
        antagonistic == counted(sr_is_antagonistic)
        significant == counted(sr_is_significant)
    IN [total_combinations |-> Cardinality(DOMAIN r.synergy_results),
        synergistic |-> synergistic,
        antagonistic |-> antagonistic,
        additive |-> Cardinality(DOMAIN r.synergy_results) - synergistic - antagonistic,
        significant |-> significant,
        data_points |-> Cardinality(DOMAIN r.raw_data)]

IsRaised(x) == "kind" \in DOMAIN x /\ x.kind \in {"TypeError", "KeyError"}

\* ExperimentData.to_dict; the parameters dict is keyed by parameter name, in
\* insertion order (the condition's own timestamp is not modelled)
ExperimentData_to_dict(x) ==
    [condition_name |-> x.condition_name,
     amount_a |-> x.amount_a,
     amount_b |-> x.amount_b,
     parameters |-> [i \in 1..Len(x.parameters) |->
                        [parameter_name |-> x.parameters[i].parameter_name,
                         unit |-> x.parameters[i].unit,
                         values |-> x.parameters[i].values,
                         mean |-> x.parameters[i].mean,
                         std |-> x.parameters[i].std,
                         n |-> x.parameters[i].n,
                         ci_lower |-> x.parameters[i].ci_lower,
                         ci_upper |-> x.parameters[i].ci_upper]]]

\* dict.get(key, default)
DictGet(dd, key, default) == IF key \in DOMAIN dd THEN dd[key] ELSE default

\* the rebuilt ParameterData with the CI bounds left as __post_init__ sets them
param_from_dict_without_ci(parameter_name, unit, pd) ==
    ParameterData(parameter_name, unit, pd.values)

\* the ParameterData that ExperimentData.from_dict rebuilds from one entry:
\* ParameterData(...) recomputes mean, std and n, then the CI bounds are copied
param_from_dict(parameter_name, unit, pd) ==
    [ParameterData(parameter_name, unit, pd.values)
        EXCEPT !.ci_lower = DictGet(pd, "ci_lower", None),
               !.ci_upper = DictGet(pd, "ci_upper", None)]

\* ExperimentData.from_dict: the multi-parameter format when the dict has a
\* 'parameters' key, the legacy single-parameter format otherwise;
\* KeyError when a key read with data[...] is missing
ExperimentData_from_dict(dd) ==
    IF "parameters" \in DOMAIN dd
    THEN IF ~ ({"amount_a", "amount_b"} \subseteq DOMAIN dd)
         THEN [kind |-> "KeyError"]
         ELSE ExperimentData(
                  [amount_a |-> dd.amount_a,
                   amount_b |-> dd.amount_b,
                   parameters |-> [i \in 1..Len(dd.parameters) |->
                                      param_from_dict(dd.parameters[i].parameter_name,
                                                      dd.parameters[i].unit, dd.parameters[i])],
                   condition_name |-> DictGet(dd, "condition_name", "")])
    ELSE IF ~ ({"values", "amount_a", "amount_b"} \subseteq DOMAIN dd)
         THEN [kind |-> "KeyError"]
         ELSE ExperimentData(
                  [amount_a |-> dd.amount_a,
                   amount_b |-> dd.amount_b,
                   parameters |-> <<param_from_dict("Legacy Parameter", "", dd)>>,
                   condition_name |-> DictGet(dd, "condition_name", "")])

\* SynergyResult.to_dict
SynergyResult_to_dict(m) ==
    [combination_id |-> m.combination_id,
     amount_a |-> m.amount_a,
     amount_b |-> m.amount_b,
     observed_effect |-> sr_observed_effect(m),
     expected_additive |-> sr_expected_additive(m),
     expected_bliss |-> sr_expected_bliss(m),
     combination_index |-> sr_combination_index(m),
     enhancement |-> sr_enhancement(m),
     enhancement_percent |-> sr_enhancement_percent(m),
     bliss_deviation |-> sr_bliss_deviation(m),
     synergy_type |-> sr_synergy_type(m),
     p_value |-> sr_p_value(m),
     cohens_d |-> sr_cohens_d(m),
     confidence_interval |-> sr_confidence_interval(m)]

\* datetime.isoformat(): the timestamp as a string
isoformat(t) == ToString(t)

\* AnalysisResults.to_dict
AnalysisResults_to_dict(r) ==
    [metadata |-> r.metadata,
     raw_data |-> [k \in DOMAIN r.raw_data |-> ExperimentData_to_dict(r.raw_data[k])],
     synergy_results |-> [k \in DOMAIN r.synergy_results |->
                             SynergyResult_to_dict(r.synergy_results[k])],
     statistical_results |-> r.statistical_results,
     model_results |-> r.model_results,
     timestamp |-> isoformat(r.timestamp)]

\* AnalysisResults.from_dict evaluated at clock tick `now`: the 'timestamp'
\* entry is not read, so the dataclass default datetime.now() applies
AnalysisResults_from_dict(dd, now) ==
    IF "raw_data" \notin DOMAIN dd
    THEN [kind |-> "KeyError"]
    ELSE LET raw_data == [k \in DOMAIN dd.raw_data |-> ExperimentData_from_dict(dd.raw_data[k])]
             given == DictGet(dd, "synergy_results", <<>>)
             synergy_results == [k \in DOMAIN given |-> SynergyResult(given[k])]
         IN IF \E k \in DOMAIN raw_data : IsRaised(raw_data[k])
            THEN [kind |-> "KeyError"]
            ELSE IF \E k \in DOMAIN given : IsTypeError(synergy_results[k])
            THEN [kind |-> "TypeError"]
            ELSE IF "metadata" \notin DOMAIN dd
            THEN [kind |-> "KeyError"]
            ELSE AnalysisResults(dd.metadata, raw_data, synergy_results,
                                 DictGet(dd, "statistical_results", <<>>),
                                 DictGet(dd, "model_results", <<>>), now)

(***************************************************************************)
(* models/analyzer.py : synergy metrics                                    *)
(***************************************************************************)
required == {"base", "additive_a", "additive_b"}

\* [k for k in d.keys() if k.startswith('combination_')]
combinations(d) == {k \in DOMAIN d : startswith(k, "combination_")}

\* _validate_data with additive_b left out of the required keys
_validate_data_without_b(d) ==
    IF ~ (\A key \in {"base", "additive_a"} : key \in DOMAIN d)
    THEN FALSE
    ELSE Cardinality(combinations(d)) >= 1

\* SynergyAnalyzer._validate_data
_validate_data(d) ==
    IF ~ (\A key \in required : key \in DOMAIN d)
    THEN FALSE
    ELSE Cardinality(combinations(d)) >= 1

\* expected_additive with a_mean in place of (a_mean - base_mean)
expected_additive_plus_base(base_mean, a_mean, b_mean) ==
    RAdd(RAdd(base_mean, a_mean), RSub(b_mean, base_mean))

\* expected_additive = base_mean + (a_mean - base_mean) + (b_mean - base_mean)
expected_additive(base_mean, a_mean, b_mean) ==
    RAdd(RAdd(base_mean, RSub(a_mean, base_mean)), RSub(b_mean, base_mean))

\* combination index with 0 in place of the infinity sentinel
combination_index_zero_sentinel(ea, comb_mean) ==
    IF comb_mean # Zero THEN RDiv(ea, comb_mean) ELSE Zero

\* ci = expected_additive / comb_mean if comb_mean != 0 else float('inf')
combination_index(ea, comb_mean) ==
    IF comb_mean # Zero THEN RDiv(ea, comb_mean) ELSE Inf

\* enhancement = comb_mean - expected_additive
enhancement(comb_mean, ea) == RSub(comb_mean, ea)

\* enhancement_percent = (enhancement / expected_additive * 100) if expected_additive != 0 else 0
enhancement_percent(enh, ea) ==
    IF ea # Zero THEN RMul(RDiv(enh, ea), Hundred) ELSE Zero

\* fa = (a_mean - base_mean) / base_mean if base_mean != 0 else 0   (fb likewise)
bliss_fraction(x_mean, base_mean) ==
    IF base_mean # Zero THEN RDiv(RSub(x_mean, base_mean), base_mean) ELSE Zero

\* expected_bliss without the interaction term fa * fb
expected_bliss_no_interaction(base_mean, fa, fb) ==
    RMul(base_mean, RAdd(RAdd(One, fa), fb))

\* expected_bliss = base_mean * (1 + fa + fb + fa * fb)
expected_bliss(base_mean, fa, fb) ==
    RMul(base_mean, RAdd(RAdd(RAdd(One, fa), fb), RMul(fa, fb)))

\* bliss_deviation = ((comb_mean - expected_bliss) / expected_bliss * 100) if expected_bliss != 0 else 0
bliss_deviation(comb_mean, eb) ==
    IF eb # Zero THEN RMul(RDiv(RSub(comb_mean, eb), eb), Hundred) ELSE Zero

\* The p-values stats.ttest_1samp(values, popmean) can return for len(values) > 1.
\* Zero variance: t is 0/0 (p is nan) or +-inf (p is 0.0).  Otherwise t = 0
\* gives p = 1.0 and any other t a p strictly between 0 and 1; the t
\* distribution is not computed, so both sides of the threshold are drawn.
ttest_1samp(values, popmean) ==
    IF np_var_ddof1(values) = Zero
    THEN IF np_mean(values) = popmean THEN {NaN} ELSE {Zero}
    ELSE IF np_mean(values) = popmean THEN {One} ELSE {R(1, 100), R(1, 2)}

\* the p_value the loop body ends with: None unless data.n > 1
p_value_outcomes(x, ea) ==
    IF ed_n(x) > 1 THEN ttest_1samp(ed_values(x), ea) ELSE {None}

\* pooled_std = np.sqrt(((data.n - 1) * data.std**2 + (base.n - 1) * base.std**2)
\*                      / (data.n + base.n - 2))
pooled_std(x, base) ==
    Sqrt(RDiv(RAdd(RMul(R(ed_n(x) - 1, 1), Square(ed_std(x))),
                   RMul(R(ed_n(base) - 1, 1), Square(ed_std(base)))),
              R(ed_n(x) + ed_n(base) - 2, 1)))

\* cohens_d = None; if data.n > 1:
\*     cohens_d = (comb_mean - base_mean) / pooled_std if pooled_std != 0 else 0
cohens_d(x, base) ==
    IF ed_n(x) > 1
    THEN IF pooled_std(x, base) # Zero
         THEN [kind |-> "quot", num |-> RSub(ed_mean(x), ed_mean(base)),
               den |-> pooled_std(x, base)]
         ELSE Zero
    ELSE None

\* the suffix with a strict comparison against the threshold
significance_strict(p_value) ==
    IF Truthy(p_value) /\ IsNum(p_value) /\ RLt(significance_threshold, p_value)
    THEN " (NS)" ELSE ""

\* the " (NS)" suffix of SynergyAnalyzer._classify_synergy
significance(p_value) ==
    IF Truthy(p_value) /\ FloatGe(p_value, significance_threshold) THEN " (NS)" ELSE ""

\* _classify_synergy with <= at the first threshold
_classify_synergy_inclusive(ci, p_value) ==
    IF FloatLe(ci, strong_synergy) THEN "Strong Synergy" \o significance(p_value)
    ELSE IF FloatLt(ci, moderate_synergy) THEN "Moderate Synergy" \o significance(p_value)
    ELSE IF FloatLe(ci, additive_upper) THEN "Additive Effect" \o significance(p_value)
    ELSE IF FloatLe(ci, weak_antagonism) THEN "Weak Antagonism" \o significance(p_value)
    ELSE "Strong Antagonism" \o significance(p_value)

\* SynergyAnalyzer._classify_synergy
_classify_synergy(ci, p_value) ==
    IF FloatLt(ci, strong_synergy) THEN "Strong Synergy" \o significance(p_value)
    ELSE IF FloatLt(ci, moderate_synergy) THEN "Moderate Synergy" \o significance(p_value)
    ELSE IF FloatLe(ci, additive_upper) THEN "Additive Effect" \o significance(p_value)
    ELSE IF FloatLe(ci, weak_antagonism) THEN "Weak Antagonism" \o significance(p_value)
    ELSE "Strong Antagonism" \o significance(p_value)

\* The keyword arguments the loop body of _calculate_synergy_metrics builds
\* for SynergyResult(...) for combination `key`, given the t-test's p_value.
synergy_kwargs(d, key, p_value) ==
    LET base_mean == ed_mean(d["base"])
        a_mean == ed_mean(d["additive_a"])
        b_mean == ed_mean(d["additive_b"])
        ea == expected_additive(base_mean, a_mean, b_mean)
        x == d[key]
        comb_mean == ed_mean(x)
        ci == combination_index(ea, comb_mean)
        enh == enhancement(comb_mean, ea)
        fa == bliss_fraction(a_mean, base_mean)
        fb == bliss_fraction(b_mean, base_mean)
        eb == expected_bliss(base_mean, fa, fb)
    IN [combination_id |-> key,
        amount_a |-> x.amount_a,
        amount_b |-> x.amount_b,
        observed_effect |-> comb_mean,
        expected_additive |-> ea,
        expected_bliss |-> eb,
        combination_index |-> ci,
        enhancement |-> enh,
        enhancement_percent |-> enhancement_percent(enh, ea),
        bliss_deviation |-> bliss_deviation(comb_mean, eb),
        synergy_type |-> _classify_synergy(ci, p_value),
        p_value |-> p_value,
        cohens_d |-> cohens_d(x, d["base"]),
        confidence_interval |-> <<ed_ci_lower(x), ed_ci_upper(x)>>]

\* expected_additive as _calculate_synergy_metrics computes it from the map
map_expected_additive(d) ==
    expected_additive(ed_mean(d["base"]), ed_mean(d["additive_a"]), ed_mean(d["additive_b"]))

\* SynergyAnalyzer._calculate_synergy_metrics: the dict of SynergyResult per
\* combination key; KeyError when self.data['base'], ['additive_a'] or
\* ['additive_b'] is missing, TypeError as soon as a SynergyResult(...) call raises.
_calculate_synergy_metrics(d) ==
    IF ~ (required \subseteq DOMAIN d)
    THEN [kind |-> "KeyError"]
    ELSE LET made == [key \in combinations(d) |->
                         SynergyResult(synergy_kwargs(d, key,
                             CHOOSE p \in p_value_outcomes(d[key], map_expected_additive(d)) : TRUE))]
         IN IF \E key \in combinations(d) : IsTypeError(made[key])
            THEN [kind |-> "TypeError"]
            ELSE made

(***************************************************************************)
(* models/analyzer.py : statistical tests.  The statistics themselves are  *)
(* not computed: the p-value of a test is an argument, drawn by the caller *)
(* from the values the library call can return.  A Python dict with        *)
(* optional keys is a function whose domain holds the keys present.        *)
(***************************************************************************)
\* group_names: the keys of the conditions with data.n > 1
group_names(d) == {k \in DOMAIN d : ed_n(d[k]) > 1}

\* if len(groups) >= 2:
anova_tested(names) == Cardinality(names) >= 2

\* the Tukey gate with >= 2 groups in place of > 2
tukey_tested_from_two_groups(p_value, names) ==
    FloatLt(p_value, significance_threshold) /\ Cardinality(names) >= 2

\* if p_value < ANALYSIS_CONFIG['significance_threshold'] and len(groups) > 2:
tukey_tested(p_value, names) ==
    FloatLt(p_value, significance_threshold) /\ Cardinality(names) > 2

\* the normality gate with n >= 2 in place of n >= 3
normality_tested_from_two(x) == ed_n(x) >= 2

\* if data.n >= 3:
normality_tested(x) == ed_n(x) >= 3

\* p-values stats.f_oneway can return: below, at and above the threshold, and
\* nan (all groups constant)
FOnewayOutcomes == {R(1, 100), R(5, 100), R(1, 2), NaN}

\* p-values stats.shapiro can return
ShapiroOutcomes == {R(1, 100), R(5, 100), R(1, 2)}

\* `from scipy.stats import tukey_hsd` succeeds or raises ImportError
TukeyOutcomes == {"available", "ImportError"}

\* SynergyAnalyzer._perform_statistical_tests, given the p-value of f_oneway,
\* whether tukey_hsd can be imported, and the p-value of shapiro for each
\* replicate count
_perform_statistical_tests(d, anova_p, tukey_import, shapiro_p) ==
    LET names == group_names(d)
        normality_results ==
            [k \in {c \in DOMAIN d : normality_tested(d[c])} |->
                [p_value |-> shapiro_p[ed_n(d[k])],
                 normal |-> RLt(significance_threshold, shapiro_p[ed_n(d[k])])]]
        present ==
            (IF anova_tested(names) THEN {"anova"} ELSE {})
            \cup (IF anova_tested(names) /\ tukey_tested(anova_p, names) THEN {"tukey"} ELSE {})
            \cup (IF DOMAIN normality_results # {} THEN {"normality"} ELSE {})
    IN [name \in present |->
           CASE name = "anova" ->
                   [p_value |-> anova_p,
                    groups_tested |-> names,
                    significant |-> FloatLt(anova_p, significance_threshold)]
             [] name = "tukey" ->
                   IF tukey_import = "available"
                   THEN [pairwise_pvalues |-> "pvalue", group_names |-> names]
                   ELSE [error |-> "Tukey HSD requires scipy >= 1.7.0"]
             [] name = "normality" -> normality_results]

(***************************************************************************)
(* models/analyzer.py : model fits.  The regressions are not computed: a   *)
(* fit either produces its record or fails, as drawn by the caller.        *)
(***************************************************************************)
\* the surface gate with > 5 in place of >= 5
surface_attempted_above_five(d) == Cardinality(DOMAIN d) > 5

\* if len(self.data) >= 5:
surface_attempted(d) == Cardinality(DOMAIN d) >= 5

\* _fit_response_surface: the fitted record, or {"error": str(e)} when the fit raises
SurfaceOutcomes == {"fit", "error"}
_fit_response_surface(outcome) ==
    IF outcome = "fit" THEN [r_squared |-> "r2", degree |-> 2] ELSE [error |-> "str(e)"]

\* the conditions whose amounts put them on the dose axis of additive A / B
a_conditions(d) == {k \in DOMAIN d : d[k].amount_b = 0 /\ d[k].amount_a > 0}
b_conditions(d) == {k \in DOMAIN d : d[k].amount_a = 0 /\ d[k].amount_b > 0}

\* len(a_doses): one dose is appended per condition
len_doses(conds) == Cardinality(conds)

\* if len(a_doses) >= 3:
hill_attempted(conds) == len_doses(conds) >= 3

\* the number of parameters of hill_equation fitted by curve_fit
HillParameters == 4

\* _fit_hill_equation: curve_fit raises when there are fewer points than
\* parameters, and may fail to converge otherwise; the bare except returns None
HillOutcomes == {"fit", "failed"}
_fit_hill_equation(conds, outcome) ==
    IF len_doses(conds) < HillParameters \/ outcome = "failed"
    THEN None
    ELSE [ic50 |-> "ic50", r_squared |-> "r2"]

\* SynergyAnalyzer._fit_dose_response: None when neither additive has an entry
_fit_dose_response(d, hill_a, hill_b) ==
    LET fit_a == IF hill_attempted(a_conditions(d))
                 THEN _fit_hill_equation(a_conditions(d), hill_a) ELSE None
        fit_b == IF hill_attempted(b_conditions(d))
                 THEN _fit_hill_equation(b_conditions(d), hill_b) ELSE None
        present == (IF fit_a # None THEN {"additive_a"} ELSE {})
                   \cup (IF fit_b # None THEN {"additive_b"} ELSE {})
    IN IF present = {} THEN None
       ELSE [name \in present |-> IF name = "additive_a" THEN fit_a ELSE fit_b]

\* SynergyAnalyzer._fit_models
_fit_models(d, surface, hill_a, hill_b) ==
    LET dose_response == _fit_dose_response(d, hill_a, hill_b)
        present == (IF surface_attempted(d) THEN {"response_surface"} ELSE {})
                   \cup (IF dose_response # None THEN {"dose_response"} ELSE {})
    IN [name \in present |->
           IF name = "response_surface" THEN _fit_response_surface(surface)
           ELSE dose_response]

\* the fits _fit_models enters, in call order
fits_attempted(d) ==
    (IF surface_attempted(d) THEN <<"response_surface">> ELSE <<>>)
    \o (IF hill_attempted(a_conditions(d)) THEN <<"hill_a">> ELSE <<>>)
    \o (IF hill_attempted(b_conditions(d)) THEN <<"hill_b">> ELSE <<>>)

(***************************************************************************)
(* The analyzer as a state machine                                         *)
(***************************************************************************)
Keys == required \cup {"combination_" \o ToString(i) : i \in 1..MaxComb}

\* The (amount_a, amount_b, values) triples a caller supplies for a condition.
\* They cover one and several replicates, a zero and a non-zero mean, and
\* zero and positive amounts.
SampleInputs ==
    {[amount_a |-> 0, amount_b |-> 0, values |-> <<0>>],
     [amount_a |-> 1, amount_b |-> 1, values |-> <<1, 3>>]}

EmptyMap == [k \in {} |-> None]

\* dict store d[key] = x
DictSet(d, key, x) == [k \in DOMAIN d \cup {key} |-> IF k = key THEN x ELSE d[k]]

\* del d[key]
DictDel(d, key) == [k \in DOMAIN d \ {key} |-> d[k]]

\* When AnalysisResults.raw_data is the very dict object analyzer.data
\* (analyze() passes raw_data=self.data), an in-place change of the map shows
\* in the stored result.
Aliased(res, newdata) ==
    IF shared THEN [res EXCEPT !.raw_data = newdata] ELSE res

Call(op, outcome, computed) == [op |-> op, outcome |-> outcome, computed |-> computed]

\* a call that ended in raise ErrorClass(message)
Raise(op, outcome, message) ==
    [op |-> op, outcome |-> outcome, computed |-> <<>>, message |-> message]

\* the message of the ValueError analyze() raises when _validate_data fails
insufficient_data_message == "Insufficient data for analysis"

\* the experiment info __init__ leaves: four empty strings
NoInfo == [additive_a_name |-> "", additive_b_name |-> "", unit |-> "", effect_parameter |-> ""]

\* the arguments a caller passes to set_experiment_info
InfoInputs == {[additive_a |-> "FEC", additive_b |-> "VC", unit |-> "wt%",
                effect_parameter |-> "Capacity"]}

\* the metadata dict analyze() builds from the experiment info
metadata_of(i) ==
    [additive_a |-> i.additive_a_name, additive_b |-> i.additive_b_name,
     unit |-> i.unit, effect_parameter |-> i.effect_parameter]

\* the values datetime.now() takes
Clock == 0..MaxClock

\* p-value of shapiro for each replicate count that is tested
ShapiroChoices(d) == [{ed_n(d[k]) : k \in {c \in DOMAIN d : ed_n(d[c]) >= 2}} -> ShapiroOutcomes]

(***************************************************************************)
(* Result files read by FileHandler.load_results: the dict json.load       *)
(* returns, or the unreadable file, on which open or json.load raises.     *)
(***************************************************************************)
UnreadableFile == [unreadable |-> TRUE]

FileMetadata == [additive_a |-> "LiNO3", additive_b |-> "LiDFOB", unit |-> "mM",
                 effect_parameter |-> "Retention"]

\* a condition as ExperimentData.to_dict writes it
FileCondition(key, amount_a, amount_b, values) ==
    ExperimentData_to_dict(
        add_parameter(ExperimentData([amount_a |-> amount_a, amount_b |-> amount_b,
                                      condition_name |-> key]),
                      "effect", "", values))

FileRawData ==
    [k \in required \cup {"combination_1"} |->
        IF k = "base" THEN FileCondition(k, 0, 0, <<0>>)
        ELSE FileCondition(k, 1, 1, <<1, 3>>)]

\* a synergy_results entry as SynergyResult.to_dict writes it
FileSynergyResult ==
    SynergyResult_to_dict(SynergyResult([combination_id |-> "combination_1",
                                         amount_a |-> 1, amount_b |-> 1]))

Files ==
    {UnreadableFile,
     [raw_data |-> FileRawData],
     [metadata |-> FileMetadata, raw_data |-> FileRawData, timestamp |-> isoformat(0)],
     [metadata |-> FileMetadata, raw_data |-> FileRawData,
      synergy_results |-> [k \in {"combination_1"} |-> FileSynergyResult],
      statistical_results |-> <<>>, model_results |-> <<>>, timestamp |-> isoformat(0)]}

Init ==
    /\ data = EmptyMap
    /\ results = None
    /\ last = Call("__init__", "returned", <<>>)
    /\ kwargs = None
    /\ ci_in = Zero
    /\ p_in = None
    /\ label = ""
    /\ info = NoInfo
    /\ out = None
    /\ shared = FALSE

\* A caller builds a condition the way the dataclasses allow,
\* ExperimentData(amount_a, amount_b, condition_name=key) and add_parameter,
\* and places it in the analyzer's map under its key.
StoreCondition(key, inp) ==
    LET x == add_parameter(
                 ExperimentData([amount_a |-> inp.amount_a, amount_b |-> inp.amount_b,
                                 condition_name |-> key]),
                 "effect", "", inp.values)
    IN /\ data' = DictSet(data, key, x)
       /\ results' = Aliased(results, data')
       /\ last' = Call("store", "returned", <<>>)
       /\ UNCHANGED <<kwargs, ci_in, p_in, label, info, out, shared>>

\* SynergyAnalyzer.set_experiment_info
set_experiment_info(additive_a, additive_b, unit, effect_parameter) ==
    /\ info' = [additive_a_name |-> additive_a, additive_b_name |-> additive_b,
                unit |-> unit, effect_parameter |-> effect_parameter]
    /\ last' = Call("set_experiment_info", "returned", <<>>)
    /\ UNCHANGED <<data, results, kwargs, ci_in, p_in, label, out, shared>>

\* SynergyAnalyzer.add_data_point(condition_name, amount_a, amount_b, values)
add_data_point(condition_name, amount_a, amount_b, values) ==
    LET data_point == ExperimentData([amount_a |-> amount_a, amount_b |-> amount_b,
                                      values |-> values, condition_name |-> condition_name])
    IN /\ IF IsTypeError(data_point)
          THEN /\ last' = Call("add_data_point", "TypeError", <<>>)
               /\ UNCHANGED <<data, results>>
          ELSE IF Len(values) > 1
          THEN \* data_point.ci_lower = ... : the property has no setter
               /\ last' = Call("add_data_point", "AttributeError", <<>>)
               /\ UNCHANGED <<data, results>>
          ELSE /\ data' = DictSet(data, condition_name, data_point)
               /\ results' = Aliased(results, data')
               /\ last' = Call("add_data_point", "returned", <<>>)
       /\ UNCHANGED <<kwargs, ci_in, p_in, label, info, out, shared>>

\* analyze() with the stored result reset before the work starts
analyze_resetting_results ==
    /\ last' = Call("analyze", IF _validate_data(data) THEN "TypeError" ELSE "ValueError", <<>>)
    /\ results' = None
    /\ shared' = FALSE
    /\ UNCHANGED <<data, kwargs, ci_in, p_in, label, info, out>>

\* analyze() with the condition map cleared on the way out
analyze_clearing_data ==
    /\ last' = Call("analyze", IF _validate_data(data) THEN "TypeError" ELSE "ValueError", <<>>)
    /\ data' = EmptyMap
    /\ UNCHANGED <<results, kwargs, ci_in, p_in, label, info, out, shared>>

\* SynergyAnalyzer.analyze()
analyze ==
    /\ IF ~ _validate_data(data)
       THEN /\ last' = Raise("analyze", "ValueError", insufficient_data_message)
            /\ UNCHANGED <<results, shared>>
       ELSE LET synergy_results == _calculate_synergy_metrics(data)
            IN IF IsRaised(synergy_results)
               THEN /\ last' = Call("analyze", synergy_results.kind, <<"synergy_metrics">>)
                    /\ UNCHANGED <<results, shared>>
               ELSE /\ \E anova_p \in FOnewayOutcomes, tukey_import \in TukeyOutcomes,
                           shapiro_p \in ShapiroChoices(data), surface \in SurfaceOutcomes,
                           hill_a \in HillOutcomes, hill_b \in HillOutcomes, now \in Clock :
                          results' = AnalysisResults(
                              metadata_of(info), data, synergy_results,
                              _perform_statistical_tests(data, anova_p, tukey_import, shapiro_p),
                              _fit_models(data, surface, hill_a, hill_b), now)
                    /\ shared' = TRUE
                    /\ last' = Call("analyze", "returned",
                                    <<"synergy_metrics", "statistical_tests", "models">>)
    /\ UNCHANGED <<data, kwargs, ci_in, p_in, label, info, out>>

\* DataInputView._render_data_table, "Delete This Condition":
\* del self.analyzer.data[condition_to_edit]
DeleteCondition(key) ==
    /\ key \in DOMAIN data
    /\ data' = DictDel(data, key)
    /\ results' = Aliased(results, data')
    /\ last' = Call("delete", "returned", <<>>)
    /\ UNCHANGED <<kwargs, ci_in, p_in, label, info, out, shared>>

\* FileHandler.load_results(analyzer, filepath): every exception is caught
\* and turned into the return value False
load_results(file) ==
    /\ IF file = UnreadableFile \/ "metadata" \notin DOMAIN file
       THEN /\ last' = Call("load_results", "False", <<>>)
            /\ UNCHANGED <<info, results, data, shared>>
       ELSE /\ info' = [additive_a_name |-> file.metadata.additive_a,
                        additive_b_name |-> file.metadata.additive_b,
                        unit |-> file.metadata.unit,
                        effect_parameter |-> file.metadata.effect_parameter]
            /\ \E now \in Clock :
                  LET loaded == AnalysisResults_from_dict(file, now)
                  IN IF IsRaised(loaded)
                     THEN /\ last' = Call("load_results", "False", <<>>)
                          /\ UNCHANGED <<results, data, shared>>
                     ELSE /\ results' = loaded
                          /\ data' = loaded.raw_data
                          /\ shared' = TRUE
                          /\ last' = Call("load_results", "True", <<>>)
    /\ UNCHANGED <<kwargs, ci_in, p_in, label, out>>

\* AnalysisView._check_data_ready
_check_data_ready(d) ==
    LET has_required == \A key \in {"base", "additive_a", "additive_b"} : key \in DOMAIN d
        has_combination == \E key \in DOMAIN d : startswith(key, "combination_")
    IN has_required /\ has_combination

\* DataInputView._check_minimum_data
_check_minimum_data(d) ==
    LET has_required == \A key \in {"base", "additive_a", "additive_b"} : key \in DOMAIN d
        has_combination == \E key \in DOMAIN d : startswith(key, "combination_")
    IN has_required /\ has_combination

\* ", ".join(parts)
RECURSIVE Join(_, _)
Join(parts, sep) ==
    IF parts = <<>> THEN ""
    ELSE IF Len(parts) = 1 THEN parts[1]
    ELSE parts[1] \o sep \o Join(Tail(parts), sep)

\* min_data_points set to five: one more than the required keys and a combination
min_data_points_five == Cardinality(required) + 2

\* VALIDATION_RULES['min_data_points']
min_data_points == 4

\* DataValidator.validate_data_completeness: the tuple (valid, message)
validate_data_completeness(d) ==
    LET required_conditions == <<"base", "additive_a", "additive_b">>
        missing_conditions == SelectSeq(required_conditions, LAMBDA cond : cond \notin DOMAIN d)
        missing_error ==
            IF missing_conditions # <<>>
            THEN <<"Missing required conditions: " \o Join(missing_conditions, ", ")>>
            ELSE <<>>
        combination_error ==
            IF combinations(d) = {} THEN <<"At least one combination is required">> ELSE <<>>
        total_points == Cardinality(DOMAIN d)
        points_error ==
            IF total_points < min_data_points
            THEN <<"Insufficient data points (need " \o ToString(min_data_points)
                   \o ", have " \o ToString(total_points) \o ")">>
            ELSE <<>>
        errors == missing_error \o combination_error \o points_error
    IN IF errors # <<>> THEN <<FALSE, Join(errors, "; ")>> ELSE <<TRUE, "">>

\* DataInputView._get_condition_name (MultiParameterInputView has the same)
_get_condition_name(d, condition_type) ==
    IF condition_type = "Base Electrolyte" THEN "base"
    ELSE IF condition_type = "Additive A Only" THEN "additive_a"
    ELSE IF condition_type = "Additive B Only" THEN "additive_b"
    ELSE LET comb_count == Cardinality({k \in DOMAIN d : startswith(k, "combination_")})
         IN "combination_" \o ToString(comb_count + 1)

ConditionTypes == {"Base Electrolyte", "Additive A Only", "Additive B Only", "Combination"}

\* DataInputView._process_data_input with parsed, valid values: the key is
\* generated from the condition type and the condition goes to add_data_point
_process_data_input(condition_type, amount_a, amount_b, values) ==
    add_data_point(_get_condition_name(data, condition_type), amount_a, amount_b, values)

\* DataInputView._render_data_table, "Clear All Data" clicked with
\* confirm_clear set (the first click only sets confirm_clear); the table and
\* its buttons are rendered only for a non-empty map.
\* self.analyzer.data = {} binds a new dict: the stored result keeps the old.
ClearAllData ==
    /\ data # EmptyMap
    /\ data' = EmptyMap
    /\ shared' = FALSE
    /\ last' = Call("clear_all", "returned", <<>>)
    /\ UNCHANGED <<results, kwargs, ci_in, p_in, label, info, out>>

\* AnalysisView.render, "Reset Analysis": the button is rendered when
\* _check_data_ready() holds and enabled when a result is stored
ResetAnalysis ==
    /\ _check_data_ready(data)
    /\ results # None
    /\ results' = None
    /\ shared' = FALSE
    /\ last' = Call("reset_analysis", "returned", <<>>)
    /\ UNCHANGED <<data, kwargs, ci_in, p_in, label, info, out>>

Next ==
    \/ \E i \in InfoInputs :
          set_experiment_info(i.additive_a, i.additive_b, i.unit, i.effect_parameter)
    \/ \E file \in Files : load_results(file)
    \/ \E key \in Keys, inp \in SampleInputs : StoreCondition(key, inp)
    \/ \E key \in Keys, inp \in SampleInputs :
          add_data_point(key, inp.amount_a, inp.amount_b, inp.values)
    \/ analyze
    \/ \E key \in Keys : DeleteCondition(key)

Spec == Init /\ [][Next]_vars

(***************************************************************************)
(* A session of the application: the operations of the views on one        *)
(* analyzer, on a result file whose result agrees with its condition map.  *)
(***************************************************************************)
SessionKeys == required \cup {"combination_1", "combination_2"}

SessionInputs == {[amount_a |-> 1, amount_b |-> 1, values |-> <<1, 3>>]}

SessionFiles ==
    {UnreadableFile,
     [metadata |-> FileMetadata,
      raw_data |-> [k \in required |-> FileCondition(k, 1, 1, <<1, 3>>)],
      timestamp |-> isoformat(0)]}

NextSession ==
    \/ \E file \in SessionFiles : load_results(file)
    \/ \E key \in SessionKeys, inp \in SessionInputs : StoreCondition(key, inp)
    \/ \E condition_type \in ConditionTypes, inp \in SessionInputs :
          _process_data_input(condition_type, inp.amount_a, inp.amount_b, inp.values)
    \/ \E key \in SessionKeys : DeleteCondition(key)
    \/ ClearAllData
    \/ analyze
    \/ ResetAnalysis

SpecSession == Init /\ [][NextSession]_vars

(***************************************************************************)
(* The analyzer on condition maps whose keys and replicate lists are not   *)
(* limited to what the input views produce: keys that start with           *)
(* 'combination_' and do not end in a positive integer, and a replicate    *)
(* list longer than the views accept.                                      *)
(***************************************************************************)
UnnumberedKeys == {"combination_", "combination_0", "combination_x"}

KeyChoices == required \cup UnnumberedKeys \cup {"combination_1"}

\* VALIDATION_RULES.get('max_replicates', 50)
max_replicates == 50

KeyInputs ==
    {[amount_a |-> 1, amount_b |-> 1, values |-> <<2>>],
     [amount_a |-> 1, amount_b |-> 1, values |-> [i \in 1..(max_replicates + 1) |-> 1]]}

NextKeys ==
    \/ \E key \in KeyChoices, inp \in KeyInputs : StoreCondition(key, inp)
    \/ \E key \in KeyChoices : DeleteCondition(key)
    \/ analyze

SpecKeys == Init /\ [][NextKeys]_vars

(***************************************************************************)
(* The loop body of _calculate_synergy_metrics applied to one combination  *)
(* of a map that holds base, additive_a, additive_b and combination_1.     *)
(***************************************************************************)
RECURSIVE SeqsUpTo(_, _)
SeqsUpTo(S, len) ==
    IF len = 0 THEN {<<>>}
    ELSE LET shorter == SeqsUpTo(S, len - 1)
         IN shorter \cup {Append(q, v) : q \in {r \in shorter : Len(r) = len - 1}, v \in S}

\* replicate lists of 1..MaxReps values from 0..MaxVal, written in ascending
\* order: the mean, the standard deviation, the count and the t-test do not
\* depend on the order of the replicates
ValueLists ==
    {s \in SeqsUpTo(0..MaxVal, MaxReps) \ {<<>>} : \A i \in 1..(Len(s) - 1) : s[i] <= s[i + 1]}

Condition(key, values) ==
    add_parameter(ExperimentData([amount_a |-> 0, amount_b |-> 0, condition_name |-> key]),
                  "effect", "", values)

MetricKeys == required \cup {"combination_1"}

InitMetrics ==
    /\ \E vals \in [MetricKeys -> ValueLists] :
          data = [k \in MetricKeys |-> Condition(k, vals[k])]
    /\ results = None
    /\ last = Call("__init__", "returned", <<>>)
    /\ kwargs = None
    /\ ci_in = Zero
    /\ p_in = None
    /\ label = ""
    /\ info = NoInfo
    /\ out = None
    /\ shared = FALSE

ComputeMetrics ==
    /\ kwargs = None
    /\ \E key \in combinations(data) :
          \E p \in p_value_outcomes(data[key], map_expected_additive(data)) :
              kwargs' = synergy_kwargs(data, key, p)
    /\ UNCHANGED <<data, results, last, ci_in, p_in, label, info, out, shared>>

NextMetrics == ComputeMetrics

SpecMetrics == InitMetrics /\ [][NextMetrics]_vars

(***************************************************************************)
(* _classify_synergy applied to a combination index and a p-value          *)
(***************************************************************************)
CIInputs == {R(i, 100) : i \in (-MaxCINum)..MaxCINum} \cup {R(25, 18), Inf}
PInputs == {R(j, 100) : j \in 0..MaxPNum} \cup {None, NaN}

InitClassify ==
    /\ data = EmptyMap
    /\ results = None
    /\ last = Call("__init__", "returned", <<>>)
    /\ kwargs = None
    /\ ci_in \in CIInputs
    /\ p_in \in PInputs
    /\ label = ""
    /\ info = NoInfo
    /\ out = None
    /\ shared = FALSE

Classify ==
    /\ label = ""
    /\ label' = _classify_synergy(ci_in, p_in)
    /\ UNCHANGED <<data, results, last, kwargs, ci_in, p_in, info, out, shared>>

NextClassify == Classify

SpecClassify == InitClassify /\ [][NextClassify]_vars

(***************************************************************************)
(* _perform_statistical_tests applied to a map whose conditions have 1 to  *)
(* MaxN replicates.                                                        *)
(***************************************************************************)
StatKeys == required \cup {"combination_1"}

\* a replicate list of the given length
Replicates(len) == [i \in 1..len |-> i]

InitStats ==
    /\ \E counts \in [StatKeys -> 0..MaxN] :
          data = [k \in {c \in StatKeys : counts[c] > 0} |-> Condition(k, Replicates(counts[k]))]
    /\ results = None
    /\ last = Call("__init__", "returned", <<>>)
    /\ kwargs = None
    /\ ci_in = Zero
    /\ p_in = None
    /\ label = ""
    /\ info = NoInfo
    /\ out = None
    /\ shared = FALSE

RunStatisticalTests ==
    /\ out = None
    /\ \E anova_p \in FOnewayOutcomes, tukey_import \in TukeyOutcomes,
          shapiro_p \in ShapiroChoices(data) :
          out' = _perform_statistical_tests(data, anova_p, tukey_import, shapiro_p)
    /\ last' = Call("_perform_statistical_tests", "returned", <<>>)
    /\ UNCHANGED <<data, results, kwargs, ci_in, p_in, label, info, shared>>

NextStats == RunStatisticalTests

SpecStats == InitStats /\ [][NextStats]_vars

(***************************************************************************)
(* _fit_models applied to a map whose conditions lie on the dose axis of   *)
(* additive A, on that of additive B, or off both.                         *)
(***************************************************************************)
\* the (amount_a, amount_b) pairs of a condition: the origin, three doses of
\* A alone, one dose of B alone, and both additives together
DoseInputs ==
    {[amount_a |-> 0, amount_b |-> 0], [amount_a |-> 1, amount_b |-> 0],
     [amount_a |-> 2, amount_b |-> 0], [amount_a |-> 3, amount_b |-> 0],
     [amount_a |-> 0, amount_b |-> 1], [amount_a |-> 1, amount_b |-> 1]}

\* a key that is not in the map
Absent == [absent |-> TRUE]

DosedCondition(key, amounts) ==
    add_parameter(ExperimentData([amount_a |-> amounts.amount_a, amount_b |-> amounts.amount_b,
                                  condition_name |-> key]),
                  "effect", "", <<1>>)

InitFits ==
    /\ \E amounts \in [Keys -> DoseInputs \cup {Absent}] :
          data = [k \in {c \in Keys : amounts[c] # Absent} |-> DosedCondition(k, amounts[k])]
    /\ results = None
    /\ last = Call("__init__", "returned", <<>>)
    /\ kwargs = None
    /\ ci_in = Zero
    /\ p_in = None
    /\ label = ""
    /\ info = NoInfo
    /\ out = None
    /\ shared = FALSE

RunFitModels ==
    /\ out = None
    /\ \E surface \in SurfaceOutcomes, hill_a \in HillOutcomes, hill_b \in HillOutcomes :
          out' = _fit_models(data, surface, hill_a, hill_b)
    /\ last' = Call("_fit_models", "returned", fits_attempted(data))
    /\ UNCHANGED <<data, results, kwargs, ci_in, p_in, label, info, shared>>

NextFits == RunFitModels

SpecFits == InitFits /\ [][NextFits]_vars

(***************************************************************************)
(* AnalysisResults.from_dict applied to AnalysisResults.to_dict of a       *)
(* result built with the dataclass constructors.                           *)
(***************************************************************************)
\* ParameterSynergyResult(parameter_name, observed_effect, ..., confidence_interval)
ParameterSynergyResult(parameter_name, kw) ==
    [parameter_name |-> parameter_name,
     observed_effect |-> kw.observed_effect,
     expected_additive |-> kw.expected_additive,
     expected_bliss |-> kw.expected_bliss,
     combination_index |-> kw.combination_index,
     enhancement |-> kw.enhancement,
     enhancement_percent |-> kw.enhancement_percent,
     bliss_deviation |-> kw.bliss_deviation,
     synergy_type |-> kw.synergy_type,
     p_value |-> kw.p_value,
     cohens_d |-> kw.cohens_d,
     confidence_interval |-> kw.confidence_interval]

\* the condition maps a result can hold: empty, base alone, a complete set
SampleMaps ==
    {[k \in S |-> Condition(k, IF k = "base" THEN <<1>> ELSE <<1, 3>>)] :
        S \in {{}, {"base"}, MetricKeys}}

CompleteMap == [k \in MetricKeys |-> Condition(k, IF k = "base" THEN <<1>> ELSE <<1, 3>>)]

\* SynergyResult(combination_id, amount_a, amount_b[, parameter_results]) for
\* combination_1 of the complete set, without and with a primary parameter result
SampleSynergyResults ==
    {SynergyResult([combination_id |-> "combination_1", amount_a |-> 1, amount_b |-> 1])}
    \cup {SynergyResult([combination_id |-> "combination_1", amount_a |-> 1, amount_b |-> 1,
                         parameter_results |->
                             <<ParameterSynergyResult("effect",
                                   synergy_kwargs(CompleteMap, "combination_1", p))>>]) :
              p \in {None, R(1, 100), R(1, 2)}}

\* the synergy_results dicts of a result: none, or one entry
SampleSynergyDicts ==
    {<<>>} \cup {[k \in {"combination_1"} |-> m] : m \in SampleSynergyResults}

SampleStatistics ==
    {<<>>, _perform_statistical_tests(CompleteMap, R(1, 100), "available", [c \in {2} |-> R(1, 2)])}

SampleModels ==
    {<<>>, [name \in {"response_surface"} |-> _fit_response_surface("fit")]}

InitRoundTrip ==
    /\ \E metadata \in {metadata_of(NoInfo), FileMetadata}, raw_data \in SampleMaps,
          synergy_results \in SampleSynergyDicts, statistical_results \in SampleStatistics,
          model_results \in SampleModels, timestamp \in Clock :
          results = AnalysisResults(metadata, raw_data, synergy_results, statistical_results,
                                    model_results, timestamp)
    /\ data = EmptyMap
    /\ last = Call("__init__", "returned", <<>>)
    /\ kwargs = None
    /\ ci_in = Zero
    /\ p_in = None
    /\ label = ""
    /\ info = NoInfo
    /\ out = None
    /\ shared = FALSE

\* AnalysisResults.from_dict(results.to_dict()), evaluated no earlier than
\* the result was created
RoundTrip ==
    /\ out = None
    /\ \E now \in results.timestamp..MaxClock :
          out' = AnalysisResults_from_dict(AnalysisResults_to_dict(results), now)
    /\ last' = Call("from_dict", IF IsRaised(out') THEN out'.kind ELSE "returned", <<>>)
    /\ UNCHANGED <<data, results, kwargs, ci_in, p_in, label, info, shared>>

NextRoundTrip == RoundTrip

SpecRoundTrip == InitRoundTrip /\ [][NextRoundTrip]_vars

(***************************************************************************)
(* AnalysisResults.get_summary_stats applied to results whose synergy      *)
(* entries carry the label _classify_synergy gives their combination index *)
(***************************************************************************)
\* combination indexes in each class and on both sides of 1
SummaryIndexes == {R(2, 5), R(4, 5), R(19, 20), One, R(21, 20), R(3, 2), R(3, 1), Inf}

SummaryPValues == {R(1, 100), R(1, 2)}

\* a SynergyResult whose primary parameter result has combination index ci,
\* p-value p and the label of _classify_synergy(ci, p)
LabelledResult(key, ci, p) ==
    SynergyResult([combination_id |-> key, amount_a |-> 1, amount_b |-> 1,
                   parameter_results |->
                       <<ParameterSynergyResult("effect",
                            [observed_effect |-> One, expected_additive |-> One,
                             expected_bliss |-> One, combination_index |-> ci,
                             enhancement |-> Zero, enhancement_percent |-> Zero,
                             bliss_deviation |-> Zero,
                             synergy_type |-> _classify_synergy(ci, p),
                             p_value |-> p, cohens_d |-> None,
                             confidence_interval |-> <<None, None>>])>>])

InitSummary ==
    /\ \E count \in 0..MaxComb :
          LET keys == {"combination_" \o ToString(i) : i \in 1..count}
          IN \E ci \in [keys -> SummaryIndexes], p \in [keys -> SummaryPValues] :
                results = AnalysisResults(FileMetadata, CompleteMap,
                                          [k \in keys |-> LabelledResult(k, ci[k], p[k])],
                                          <<>>, <<>>, 0)
    /\ data = EmptyMap
    /\ last = Call("__init__", "returned", <<>>)
    /\ kwargs = None
    /\ ci_in = Zero
    /\ p_in = None
    /\ label = ""
    /\ info = NoInfo
    /\ out = None
    /\ shared = FALSE

GetSummaryStats ==
    /\ out = None
    /\ out' = get_summary_stats(results)
    /\ last' = Call("get_summary_stats", "returned", <<>>)
    /\ UNCHANGED <<data, results, kwargs, ci_in, p_in, label, info, shared>>

NextSummary == GetSummaryStats

SpecSummary == InitSummary /\ [][NextSummary]_vars

(***************************************************************************)
(* ExperimentData.from_dict applied to ExperimentData.to_dict of a         *)
(* condition, and to a dict in the legacy single-parameter format.         *)
(***************************************************************************)
\* the CI bounds a parameter carries: none, or a pair read from a file
SampleBounds == {<<None, None>>, <<R(1, 2), R(3, 2)>>}

\* a ParameterData as the constructor and from_dict leave it
SampleParameter(parameter_name, unit, values, bounds) ==
    param_from_dict(parameter_name, unit,
                    [values |-> values, ci_lower |-> bounds[1], ci_upper |-> bounds[2]])

\* the parameter lists of a condition: none, one parameter, two parameters
SampleParameterLists ==
    {<<>>}
    \cup {<<SampleParameter("Capacity", "mAh", values, bounds)>> :
              values \in ValueLists, bounds \in SampleBounds}
    \cup {<<SampleParameter("Retention", "%", values, bounds),
            SampleParameter("Capacity", "mAh", <<1, 3>>, <<None, None>>)>> :
              values \in ValueLists, bounds \in SampleBounds}

SampleConditions ==
    {ExperimentData([amount_a |-> amount, amount_b |-> 1 - amount,
                     parameters |-> parameters, condition_name |-> condition_name]) :
        amount \in 0..1, parameters \in SampleParameterLists,
        condition_name \in {"", "combination_1"}}

\* dicts of the legacy format: 'values', the amounts, and optionally
\* 'condition_name' and the CI bounds
LegacyDicts ==
    {[values |-> values, amount_a |-> 1, amount_b |-> 0] : values \in ValueLists}
    \cup {[values |-> values, amount_a |-> 0, amount_b |-> 1, condition_name |-> "base",
            ci_lower |-> R(1, 2), ci_upper |-> R(3, 2)] : values \in ValueLists}

InitCondition ==
    /\ \/ data \in {[k \in {x.condition_name} |-> x] : x \in SampleConditions} /\ kwargs = None
       \/ data = EmptyMap /\ kwargs \in LegacyDicts
    /\ results = None
    /\ last = Call("__init__", "returned", <<>>)
    /\ ci_in = Zero
    /\ p_in = None
    /\ label = ""
    /\ info = NoInfo
    /\ out = None
    /\ shared = FALSE

\* ExperimentData.from_dict(x.to_dict()) for the condition x held in data
ConditionRoundTrip ==
    /\ out = None
    /\ \E k \in DOMAIN data : out' = ExperimentData_from_dict(ExperimentData_to_dict(data[k]))
    /\ last' = Call("from_dict(to_dict)", IF IsRaised(out') THEN out'.kind ELSE "returned", <<>>)
    /\ UNCHANGED <<data, results, kwargs, ci_in, p_in, label, info, shared>>

\* ExperimentData.from_dict on the legacy dict held in kwargs
LegacyFromDict ==
    /\ out = None
    /\ kwargs # None
    /\ out' = ExperimentData_from_dict(kwargs)
    /\ last' = Call("from_dict(legacy)", IF IsRaised(out') THEN out'.kind ELSE "returned", <<>>)
    /\ UNCHANGED <<data, results, kwargs, ci_in, p_in, label, info, shared>>

NextCondition == ConditionRoundTrip \/ LegacyFromDict

SpecCondition == InitCondition /\ [][NextCondition]_vars

(***************************************************************************)
(* Properties                                                              *)
(***************************************************************************)
\* what the specification calls a valid condition set
ClaimValid(d) ==
    /\ "base" \in DOMAIN d
    /\ "additive_a" \in DOMAIN d
    /\ "additive_b" \in DOMAIN d
    /\ \E k \in DOMAIN d : startswith(k, "combination_")

ClaimCombinationKeys(d) == {k \in DOMAIN d : startswith(k, "combination_")}

\* arithmetic mean and count of a condition's replicate values
ClaimValues(x) == x.parameters[1].values
ClaimMean(x) == R(SumSeq(ClaimValues(x)), Len(ClaimValues(x)))

AnalyzeCalledOnValid == last.op = "analyze" /\ ClaimValid(data)

\* C1: after analyze() on a map with base, additive_a, additive_b and at least
\* one combination_* key, the result's synergy_results has exactly the
\* combination_* keys of the map as its keys.
C1_OneMetricPerCombination ==
    AnalyzeCalledOnValid =>
        /\ results # None
        /\ DOMAIN results.synergy_results = ClaimCombinationKeys(data)

\* C2: analyze() on a map that lacks base, additive_a or additive_b, or has no
\* combination key, raises, and no metric, test or fit was computed.
C2_FailsBeforeComputing ==
    (last.op = "analyze" /\ ~ ClaimValid(data)) =>
        /\ last.outcome # "returned"
        /\ last.computed = <<>>

C2_Witness ==
    /\ last.op = "analyze"
    /\ last.outcome = "ValueError"
    /\ {"base", "additive_a"} \subseteq DOMAIN data
    /\ "additive_b" \notin DOMAIN data
    /\ ClaimCombinationKeys(data) # {}

\* C3: analyze() on a map with base, additive_a, additive_b and a combination
\* returns a result and does not raise, zero denominators included.
C3_ReturnsWhenValid ==
    AnalyzeCalledOnValid => last.outcome = "returned"

\* C4: the metric built for a combination has combinationIndex =
\* expectedAdditive / observedEffect, or +infinity when observedEffect is 0,
\* observedEffect being the combination's own mean.
C4_CombinationIndex ==
    kwargs # None =>
        LET x == data[kwargs.combination_id]
        IN /\ kwargs.observed_effect = ClaimMean(x)
           /\ kwargs.combination_index =
                 IF ClaimMean(x) = Zero THEN Inf
                 ELSE RDiv(kwargs.expected_additive, ClaimMean(x))

C4_Witness ==
    /\ kwargs # None
    /\ kwargs.observed_effect = Zero
    /\ kwargs.expected_additive # Zero
    /\ kwargs.combination_index = Inf

ClaimExpectedAdditive(d) ==
    RSub(RAdd(ClaimMean(d["additive_a"]), ClaimMean(d["additive_b"])), ClaimMean(d["base"]))

\* C5: the metric built for any combination has expectedAdditive = aMean +
\* bMean - baseMean, enhancement = c.mean - expectedAdditive and
\* enhancementPercent = enhancement / expectedAdditive * 100, or 0 when
\* expectedAdditive is 0; means 10, 15, 20 and 18 give 25, -7 and -28.
C5_AdditiveAndEnhancement ==
    /\ kwargs # None =>
          LET ea == ClaimExpectedAdditive(data)
              enh == RSub(ClaimMean(data[kwargs.combination_id]), ea)
          IN /\ kwargs.expected_additive = ea
             /\ kwargs.enhancement = enh
             /\ kwargs.enhancement_percent =
                   IF ea = Zero THEN Zero ELSE RMul(RDiv(enh, ea), Hundred)
    /\ expected_additive(R(10, 1), R(15, 1), R(20, 1)) = R(25, 1)
    /\ enhancement(R(18, 1), expected_additive(R(10, 1), R(15, 1), R(20, 1))) = R(-7, 1)
    /\ enhancement_percent(R(-7, 1), expected_additive(R(10, 1), R(15, 1), R(20, 1))) = R(-28, 1)

C5_Witness ==
    /\ kwargs # None
    /\ ClaimMean(data["base"]) # Zero
    /\ kwargs.expected_additive # Zero
    /\ kwargs.enhancement # Zero
    /\ kwargs.enhancement_percent # Zero

\* the class names of the specification
Classes == {"Strong Synergy", "Moderate Synergy", "Additive Effect",
            "Weak Antagonism", "Strong Antagonism"}

\* the class the specification assigns to a combination index
ClaimClass(ci) ==
    IF ci = Inf THEN "Strong Antagonism"
    ELSE IF 2 * ci.n < ci.d THEN "Strong Synergy"
    ELSE IF 10 * ci.n < 9 * ci.d THEN "Moderate Synergy"
    ELSE IF 10 * ci.n <= 11 * ci.d THEN "Additive Effect"
    ELSE IF ci.n <= 2 * ci.d THEN "Weak Antagonism"
    ELSE "Strong Antagonism"

\* a label carries the not-significant qualifier when it ends in " (NS)"
HasQualifier(s) == Len(s) >= 5 /\ SubSeq(s, Len(s) - 4, Len(s)) = " (NS)"
\* the label without its qualifier
Unqualified(s) == IF HasQualifier(s) THEN SubSeq(s, 1, Len(s) - 5) ELSE s

\* C6: the class of the label is fixed by the combination index alone, by the
\* thresholds 0.5, 0.9, 1.1, 2.0 tested in order, and is one of the five classes.
C6_ClassByThresholds ==
    label # "" =>
        /\ Unqualified(label) \in Classes
        /\ Unqualified(label) = ClaimClass(ci_in)
        /\ (ci_in = R(49, 100) => Unqualified(label) = "Strong Synergy")
        /\ (ci_in = R(89, 100) => Unqualified(label) = "Moderate Synergy")
        /\ (ci_in = R(1, 1) => Unqualified(label) = "Additive Effect")
        /\ (ci_in = R(3, 2) => Unqualified(label) = "Weak Antagonism")
        /\ (ci_in = R(3, 1) => Unqualified(label) = "Strong Antagonism")
        /\ (ci_in = R(25, 18) => Unqualified(label) = "Weak Antagonism")

C6_Witness ==
    /\ ci_in = R(25, 18)
    /\ p_in = None
    /\ label = "Weak Antagonism"

\* C7: the label ends in " (NS)" exactly when a p-value is present and is at
\* least 0.05; with no p-value or a p-value below 0.05 (0 included) the label
\* is the bare class name.
C7_QualifierIffNotSignificant ==
    label # "" =>
        /\ HasQualifier(label) <=> (p_in # None /\ IsNum(p_in) /\ 100 * p_in.n >= 5 * p_in.d)
        /\ ((p_in = None \/ (IsNum(p_in) /\ 100 * p_in.n < 5 * p_in.d)) => label \in Classes)

C7_Witness ==
    /\ p_in = R(5, 100)
    /\ label # ""
    /\ HasQualifier(label)

\* C8: the metric built for a combination has expectedBliss = baseMean *
\* (1 + fa + fb + fa*fb) with fa = (aMean - baseMean)/baseMean and fb =
\* (bMean - baseMean)/baseMean (both 0 when baseMean is 0), and blissDeviation
\* = (c.mean - expectedBliss) / expectedBliss * 100, or 0 when expectedBliss
\* is 0; baseMean = 0 gives expectedBliss 0 and blissDeviation 0.
C8_BlissTerms ==
    kwargs # None =>
        LET bm == ClaimMean(data["base"])
            fa == IF bm = Zero THEN Zero
                  ELSE RDiv(RSub(ClaimMean(data["additive_a"]), bm), bm)
            fb == IF bm = Zero THEN Zero
                  ELSE RDiv(RSub(ClaimMean(data["additive_b"]), bm), bm)
            eb == RMul(bm, RAdd(RAdd(RAdd(One, fa), fb), RMul(fa, fb)))
        IN /\ kwargs.expected_bliss = eb
           /\ kwargs.bliss_deviation =
                 IF eb = Zero THEN Zero
                 ELSE RMul(RDiv(RSub(ClaimMean(data[kwargs.combination_id]), eb), eb), Hundred)
           /\ (bm = Zero => kwargs.expected_bliss = Zero /\ kwargs.bliss_deviation = Zero)

C8_Witness ==
    /\ kwargs # None
    /\ ClaimMean(data["base"]) # Zero
    /\ ClaimMean(data["additive_a"]) # ClaimMean(data["base"])
    /\ ClaimMean(data["additive_b"]) # ClaimMean(data["base"])
    /\ kwargs.expected_bliss # Zero
    /\ kwargs.bliss_deviation # Zero

\* sum of squared deviations from the mean times n: n * sum(x^2) - sum(x)^2;
\* it is 0 exactly when the sample standard deviation is 0
ClaimSpread(x) ==
    Len(ClaimValues(x)) * SumSquares(ClaimValues(x))
        - SumSeq(ClaimValues(x)) * SumSeq(ClaimValues(x))

\* pooledStd is 0 exactly when neither the combination nor a base with more
\* than one replicate has any spread
ClaimPooledStdIsZero(x, base) ==
    /\ ClaimSpread(x) = 0
    /\ (Len(ClaimValues(base)) > 1 => ClaimSpread(base) = 0)

\* C9: for the combination the metric is built for, pValue and cohensD are
\* both absent when it has one replicate; with more replicates pValue is
\* present, and cohensD is present unless pooledStd is 0, when it is absent.
C9_PValueAndCohensD ==
    kwargs # None =>
        LET x == data[kwargs.combination_id]
        IN /\ (Len(ClaimValues(x)) = 1 => kwargs.p_value = None /\ kwargs.cohens_d = None)
           /\ (Len(ClaimValues(x)) > 1 =>
                  /\ kwargs.p_value # None
                  /\ (ClaimPooledStdIsZero(x, data["base"]) => kwargs.cohens_d = None)
                  /\ (~ ClaimPooledStdIsZero(x, data["base"]) => kwargs.cohens_d # None))

\* C10: every condition in the map with one replicate has no CI bounds, and
\* every condition with more than one has both, with ciLower <= mean <= ciUpper.
C10_ConfidenceBounds ==
    \A k \in DOMAIN data :
        LET x == data[k]
            lo == x.parameters[1].ci_lower
            hi == x.parameters[1].ci_upper
        IN /\ (Len(ClaimValues(x)) = 1 => lo = None /\ hi = None)
           /\ (Len(ClaimValues(x)) > 1 =>
                  /\ lo # None
                  /\ hi # None
                  /\ lo.n * ClaimMean(x).d <= ClaimMean(x).n * lo.d
                  /\ ClaimMean(x).n * hi.d <= hi.n * ClaimMean(x).d)

\* sample standard deviation squared of a condition's replicate values
ClaimVariance(x) ==
    R(ClaimSpread(x), Len(ClaimValues(x)) * (Len(ClaimValues(x)) - 1))

\* C11: add_data_point(key, amountA, amountB, values) leaves a condition
\* stored under key whose values, mean, sample std (0 when n = 1), n and CI
\* bounds are those of the new values, whether or not key was present before,
\* and changes no other key of the map.
C11_StoresAndReplaces ==
    [][\A key \in Keys, inp \in SampleInputs :
          add_data_point(key, inp.amount_a, inp.amount_b, inp.values) =>
              /\ DOMAIN data' = DOMAIN data \cup {key}
              /\ \A k \in DOMAIN data \ {key} : data'[k] = data[k]
              /\ data'[key].amount_a = inp.amount_a
              /\ data'[key].amount_b = inp.amount_b
              /\ ClaimValues(data'[key]) = inp.values
              /\ data'[key].parameters[1].mean = ClaimMean(data'[key])
              /\ data'[key].parameters[1].n = Len(inp.values)
              /\ data'[key].parameters[1].std =
                    IF Len(inp.values) = 1 THEN Zero ELSE Sqrt(ClaimVariance(data'[key]))
              /\ (Len(inp.values) = 1 =>
                     /\ data'[key].parameters[1].ci_lower = None
                     /\ data'[key].parameters[1].ci_upper = None)
              /\ (Len(inp.values) > 1 =>
                     /\ data'[key].parameters[1].ci_lower # None
                     /\ data'[key].parameters[1].ci_upper # None)]_vars

StatisticalTestsRan == last.op = "_perform_statistical_tests"

\* the conditions with at least `least` replicate values
ClaimWithReplicates(d, least) == {k \in DOMAIN d : Len(ClaimValues(d[k])) >= least}

\* p < 0.05 for a p-value that may be nan
ClaimBelowThreshold(p) == IsNum(p) /\ 100 * p.n < 5 * p.d

\* C12: the statistical results have an anova entry exactly when at least 2
\* conditions have n > 1, with exactly those conditions as its groups, and a
\* tukey entry (pairwise p-values or the unavailable-marker) exactly when the
\* anova entry is present with p-value < 0.05 and more than 2 groups.
C12_AnovaAndTukeyGating ==
    StatisticalTestsRan =>
        /\ "anova" \in DOMAIN out <=> Cardinality(ClaimWithReplicates(data, 2)) >= 2
        /\ "anova" \in DOMAIN out => out["anova"].groups_tested = ClaimWithReplicates(data, 2)
        /\ "tukey" \in DOMAIN out <=>
               /\ "anova" \in DOMAIN out
               /\ ClaimBelowThreshold(out["anova"].p_value)
               /\ Cardinality(out["anova"].groups_tested) > 2
        /\ "tukey" \in DOMAIN out =>
               \/ "pairwise_pvalues" \in DOMAIN out["tukey"]
               \/ DOMAIN out["tukey"] = {"error"}

C12_Witness ==
    /\ StatisticalTestsRan
    /\ Cardinality(DOMAIN data) = 4
    /\ Cardinality(ClaimWithReplicates(data, 2)) = 3
    /\ "tukey" \in DOMAIN out
    /\ DOMAIN out["tukey"] = {"error"}

\* C13: the normality map has an entry for a condition exactly when it has
\* n >= 3, with isNormal = (pValue > 0.05); conditions with n < 3 give no
\* entry and no error, and the map is omitted when no condition has n >= 3.
C13_NormalityGating ==
    StatisticalTestsRan =>
        /\ last.outcome = "returned"
        /\ "normality" \in DOMAIN out <=> ClaimWithReplicates(data, 3) # {}
        /\ "normality" \in DOMAIN out =>
               /\ DOMAIN out["normality"] = ClaimWithReplicates(data, 3)
               /\ \A k \in DOMAIN out["normality"] :
                     out["normality"][k].normal <=>
                         (5 * out["normality"][k].p_value.d < 100 * out["normality"][k].p_value.n)

C13_Witness ==
    /\ StatisticalTestsRan
    /\ "normality" \in DOMAIN out
    /\ ClaimWithReplicates(data, 3) # DOMAIN data
    /\ \E k \in DOMAIN out["normality"] :
          out["normality"][k].p_value = R(5, 100) /\ ~ out["normality"][k].normal

FitModelsRan == last.op = "_fit_models"

\* a fit was entered during the call
Attempted(fit) == \E i \in 1..Len(last.computed) : last.computed[i] = fit

\* C14: the model results have a response_surface entry exactly when the map
\* holds at least 5 conditions; with 4 or fewer no surface fit is attempted.
C14_SurfaceNeedsFiveConditions ==
    FitModelsRan =>
        /\ "response_surface" \in DOMAIN out <=> Cardinality(DOMAIN data) >= 5
        /\ Cardinality(DOMAIN data) <= 4 => ~ Attempted("response_surface")

C14_Witness ==
    /\ FitModelsRan
    /\ Cardinality(DOMAIN data) = 5
    /\ "response_surface" \in DOMAIN out
    /\ "error" \in DOMAIN out["response_surface"]

\* the distinct doses of additive A alone and of additive B alone
ClaimDosesA(d) == {d[k].amount_a : k \in {c \in DOMAIN d : d[c].amount_b = 0 /\ d[c].amount_a > 0}}
ClaimDosesB(d) == {d[k].amount_b : k \in {c \in DOMAIN d : d[c].amount_a = 0 /\ d[c].amount_b > 0}}

\* the dose-response entry of an additive is present in the model results
HasDoseEntry(additive) ==
    "dose_response" \in DOMAIN out /\ additive \in DOMAIN out["dose_response"]

\* C15: a dose-response fit for an additive is attempted only when its
\* single-additive conditions supply at least 3 distinct doses; with fewer
\* (3 or more conditions sharing a dose included) the fit is not attempted,
\* the additive's entry is absent, and nothing is raised.
C15_DoseFitNeedsThreeDistinctDoses ==
    FitModelsRan =>
        /\ last.outcome = "returned"
        /\ Attempted("hill_a") => Cardinality(ClaimDosesA(data)) >= 3
        /\ Attempted("hill_b") => Cardinality(ClaimDosesB(data)) >= 3
        /\ Cardinality(ClaimDosesA(data)) < 3 => ~ HasDoseEntry("additive_a")
        /\ Cardinality(ClaimDosesB(data)) < 3 => ~ HasDoseEntry("additive_b")

RoundTripRan == last.op = "from_dict"

\* two synergy results agree on every field the specification lists
ClaimSameMetric(m1, m2) ==
    /\ m1.combination_id = m2.combination_id
    /\ m1.amount_a = m2.amount_a
    /\ m1.amount_b = m2.amount_b
    /\ sr_observed_effect(m1) = sr_observed_effect(m2)
    /\ sr_expected_additive(m1) = sr_expected_additive(m2)
    /\ sr_expected_bliss(m1) = sr_expected_bliss(m2)
    /\ sr_combination_index(m1) = sr_combination_index(m2)
    /\ sr_enhancement(m1) = sr_enhancement(m2)
    /\ sr_enhancement_percent(m1) = sr_enhancement_percent(m2)
    /\ sr_bliss_deviation(m1) = sr_bliss_deviation(m2)
    /\ sr_synergy_type(m1) = sr_synergy_type(m2)
    /\ sr_p_value(m1) = sr_p_value(m2)
    /\ sr_cohens_d(m1) = sr_cohens_d(m2)
    /\ sr_confidence_interval(m1) = sr_confidence_interval(m2)

\* C17: for a result r with at least one synergy result, from_dict(r.to_dict())
\* succeeds and its synergy_results has the keys of r's, each entry with the
\* same combination_id, amounts, metrics, synergy_type, p_value, cohens_d and
\* confidence_interval.
C17_SynergyResultsRoundTrip ==
    (RoundTripRan /\ DOMAIN results.synergy_results # {}) =>
        /\ last.outcome = "returned"
        /\ DOMAIN out.synergy_results = DOMAIN results.synergy_results
        /\ \A k \in DOMAIN results.synergy_results :
              ClaimSameMetric(out.synergy_results[k], results.synergy_results[k])

\* C18: whenever from_dict(to_dict(r)) yields a result, it has r's metadata,
\* condition map, statistical results, model results and creation timestamp.
C18_LosslessConversion ==
    (RoundTripRan /\ last.outcome = "returned") =>
        /\ out.metadata = results.metadata
        /\ out.raw_data = results.raw_data
        /\ out.statistical_results = results.statistical_results
        /\ out.model_results = results.model_results
        /\ out.timestamp = results.timestamp

\* the caller operations that change the condition map in place
MapMutations == {"store", "delete", "add_data_point"}

\* C19: once a result is stored, adding, replacing or deleting a condition
\* leaves the result's condition map, synergy results, statistical results
\* and model results as they were.
C19_ResultNeverMutated ==
    [][(results # None /\ last'.op \in MapMutations) =>
          /\ results' # None
          /\ results'.raw_data = results.raw_data
          /\ results'.synergy_results = results.synergy_results
          /\ results'.statistical_results = results.statistical_results
          /\ results'.model_results = results.model_results]_vars

\* the fields of a condition the specification lists
ClaimSameCondition(x, y) ==
    /\ x.amount_a = y.amount_a
    /\ x.amount_b = y.amount_b
    /\ Len(x.parameters) = Len(y.parameters)
    /\ \A i \in 1..Len(x.parameters) :
          /\ x.parameters[i].values = y.parameters[i].values
          /\ x.parameters[i].mean = y.parameters[i].mean
          /\ x.parameters[i].std = y.parameters[i].std
          /\ x.parameters[i].n = y.parameters[i].n
          /\ x.parameters[i].ci_lower = y.parameters[i].ci_lower
          /\ x.parameters[i].ci_upper = y.parameters[i].ci_upper

\* C20: a call of analyze() leaves the condition map with the same keys and
\* every condition's amounts, values, mean, std, n and CI bounds as they
\* were, and leaves the experiment info as it was.
C20_AnalyzeLeavesInputUnchanged ==
    [][last'.op = "analyze" =>
          /\ DOMAIN data' = DOMAIN data
          /\ \A k \in DOMAIN data : ClaimSameCondition(data'[k], data[k])
          /\ info' = info]_vars

C20_Witness ==
    /\ last.op = "analyze"
    /\ last.computed = <<"synergy_metrics">>
    /\ ClaimValid(data)
    /\ \E k \in DOMAIN data : Len(ClaimValues(data[k])) > 1
    /\ info # NoInfo

\* the text s contains the word sub
ClaimContains(s, sub) ==
    \E i \in 1..(Len(s) - Len(sub) + 1) : SubSeq(s, i, i + Len(sub) - 1) = sub

\* the requirements of a valid condition set that map d does not meet, each
\* by the word that names it
ClaimMissing(d) ==
    (required \ DOMAIN d) \cup (IF ClaimCombinationKeys(d) = {} THEN {"combination"} ELSE {})

\* C21: when analyze() fails its precondition, the message of the error names
\* every requirement the map does not meet: each absent key among base,
\* additive_a, additive_b, and the combination when there is none.
C21_MessageNamesMissing ==
    (last.op = "analyze" /\ last.outcome = "ValueError") =>
        \A word \in ClaimMissing(data) : ClaimContains(last.message, word)

\* keys of the form combination_<positive integer>
ClaimNumberedKeys == {"combination_" \o ToString(i) : i \in 1..MaxComb}

\* C22: analyze() on a map that holds base, additive_a and additive_b and no
\* key of the form combination_<positive integer> fails validation: it raises
\* the precondition error and computes no synergy metric.
C22_OnlyNumberedCombinations ==
    (/\ last.op = "analyze"
     /\ required \subseteq DOMAIN data
     /\ DOMAIN data \cap ClaimNumberedKeys = {}) =>
        /\ last.outcome = "ValueError"
        /\ last.computed = <<>>

\* a replicate list that violates its size constraint
ClaimBadReplicates(values) == Len(values) = 0 \/ Len(values) > max_replicates

\* C23: analyze() on a map in which some condition has an empty replicate
\* list or one longer than 50 values raises the precondition error before any
\* metric is computed.
C23_RejectsBadReplicates ==
    (/\ last.op = "analyze"
     /\ \E k \in DOMAIN data : ClaimBadReplicates(ClaimValues(data[k]))) =>
        /\ last.outcome = "ValueError"
        /\ last.computed = <<>>

\* the stored result has exactly one synergy entry per combination key of
\* the condition map
ClaimCorresponds(res, d) == DOMAIN res.synergy_results = ClaimCombinationKeys(d)

\* the operations of a caller the specification lists
ClaimCallerOperations == {"store", "add_data_point", "delete", "clear_all", "analyze", "reset_analysis"}

\* C24: after any add, replace, delete, clear, analysis run or reset, a stored
\* result that corresponded to the condition map before the operation, or was
\* stored by it, corresponds to the condition map after it.
C24_ResultMatchesMap ==
    [][(/\ last'.op \in ClaimCallerOperations
        /\ results' # None
        /\ results # None => ClaimCorresponds(results, data)) =>
          ClaimCorresponds(results', data')]_vars

\* C25: a call of analyze() that raises leaves the stored result, the
\* condition map and the experiment info as they were before the call.
C25_RaiseLeavesStateUnchanged ==
    [][(last'.op = "analyze" /\ last'.outcome # "returned") =>
          /\ results' = results
          /\ data' = data
          /\ info' = info]_vars

C25_Witness ==
    /\ last.op = "analyze"
    /\ last.outcome = "TypeError"
    /\ results # None
    /\ info # NoInfo
    /\ ClaimValid(data)

\* the combination keys of d are combination_1 .. combination_n, as the input
\* views number them when nothing was deleted
ClaimNumberedFromOne(d) ==
    ClaimCombinationKeys(d) =
        {"combination_" \o ToString(i) : i \in 1..Cardinality(ClaimCombinationKeys(d))}

\* C26: after an add or a delete made through the input view on a map whose
\* combinations are numbered from one, the key the view generates for a new
\* combination is not a key of the condition map.
C26_GeneratedKeyIsFresh ==
    [][(last'.op \in {"add_data_point", "delete"} /\ ClaimNumberedFromOne(data)) =>
          _get_condition_name(data', "Combination") \notin DOMAIN data']_vars

\* C27: on every condition map, AnalysisView._check_data_ready,
\* DataInputView._check_minimum_data and the validity flag of
\* DataValidator.validate_data_completeness all equal
\* SynergyAnalyzer._validate_data; the rule of at least 4 data points never
\* rejects a map the analyzer accepts.
C27_ReadinessChecksAgree ==
    /\ _check_data_ready(data) = _validate_data(data)
    /\ _check_minimum_data(data) = _validate_data(data)
    /\ validate_data_completeness(data)[1] = _validate_data(data)

C27_Witness ==
    /\ _validate_data(data)
    /\ Cardinality(DOMAIN data) = min_data_points
    /\ "combination_x" \in DOMAIN data
    /\ validate_data_completeness(data) = <<TRUE, "">>

\* the class of a synergy result's label
ClaimLabelClass(m) == Unqualified(sr_synergy_type(m))

ClaimWithClass(r, classes) ==
    {k \in DOMAIN r.synergy_results : ClaimLabelClass(r.synergy_results[k]) \in classes}

\* C28: in the summary of a result, no more results are counted synergistic than
\* are labelled Strong or Moderate Synergy, no more antagonistic than are labelled
\* Weak or Strong Antagonism, the additive count is the number labelled Additive
\* Effect, and the three counts are non-negative and sum to total_combinations.
C28_SummaryAgreesWithLabels ==
    last.op = "get_summary_stats" =>
        /\ out.synergistic <=
              Cardinality(ClaimWithClass(results, {"Strong Synergy", "Moderate Synergy"}))
        /\ out.antagonistic <=
              Cardinality(ClaimWithClass(results, {"Weak Antagonism", "Strong Antagonism"}))
        /\ out.additive = Cardinality(ClaimWithClass(results, {"Additive Effect"}))
        /\ out.synergistic >= 0 /\ out.antagonistic >= 0 /\ out.additive >= 0
        /\ out.synergistic + out.antagonistic + out.additive = out.total_combinations

\* C29: a load_results call that returns False leaves the experiment info,
\* the condition map and the stored result as they were; one that returns
\* True leaves a stored result whose raw_data is the condition map and whose
\* metadata is the experiment info.
C29_LoadIsAllOrNothing ==
    [][last'.op = "load_results" =>
          IF last'.outcome = "False"
          THEN info' = info /\ data' = data /\ results' = results
          ELSE /\ results' # None
               /\ data' = results'.raw_data
               /\ metadata_of(info') = results'.metadata]_vars

\* every field of a parameter the specification lists
ClaimSameParameter(p, q) ==
    /\ p.parameter_name = q.parameter_name
    /\ p.unit = q.unit
    /\ p.values = q.values
    /\ p.mean = q.mean
    /\ p.std = q.std
    /\ p.n = q.n
    /\ p.ci_lower = q.ci_lower
    /\ p.ci_upper = q.ci_upper

\* C30: ExperimentData.from_dict(x.to_dict()) has x's condition_name and
\* amounts and x's parameters in x's order, each with the same name, unit,
\* values, mean, std, n and CI bounds, so the primary-parameter accessors
\* agree; from_dict of a legacy dict has exactly one parameter, which holds
\* the dict's values and CI bounds.
C30_ConditionRoundTrip ==
    /\ last.op = "from_dict(to_dict)" =>
          \A k \in DOMAIN data :
             /\ ~ IsRaised(out)
             /\ out.condition_name = data[k].condition_name
             /\ out.amount_a = data[k].amount_a
             /\ out.amount_b = data[k].amount_b
             /\ Len(out.parameters) = Len(data[k].parameters)
             /\ \A i \in 1..Len(data[k].parameters) :
                   ClaimSameParameter(out.parameters[i], data[k].parameters[i])
             /\ ed_values(out) = ed_values(data[k])
             /\ ed_mean(out) = ed_mean(data[k])
             /\ ed_std(out) = ed_std(data[k])
             /\ ed_n(out) = ed_n(data[k])
    /\ last.op = "from_dict(legacy)" =>
          /\ ~ IsRaised(out)
          /\ Len(out.parameters) = 1
          /\ out.parameters[1].values = kwargs.values
          /\ out.parameters[1].ci_lower = DictGet(kwargs, "ci_lower", None)
          /\ out.parameters[1].ci_upper = DictGet(kwargs, "ci_upper", None)

C30_Witness ==
    /\ last.op = "from_dict(to_dict)"
    /\ Len(out.parameters) = 2
    /\ out.parameters[1].ci_lower # None
    /\ Len(out.parameters[1].values) > 1

====
